---- MODULE Spec2Model ----
(***************************************************************************)
(* A model of kpiDashboard1202.py: the Streamlit script that loads the     *)
(* per-region hourly CSV files, outer-joins them on Datetime, and computes *)
(* KPIs and chart aggregates for a selected region and date window.        *)
(*                                                                         *)
(* Representation.  A string is the sequence of its characters.  A table   *)
(* (DataFrame) is [cols, rows]: cols the sequence of column names, rows    *)
(* the bag of its rows (a row is the tuple of its cells, in column order;  *)
(* the order of the rows is not modelled, no step of the script reads it). *)
(* A cell is an integer: a consumption value (>= 0), or a timestamp as the *)
(* number of hours since 1970-01-01 00:00, or NULL.  The Datetime cells of *)
(* the files are well-formed timestamps, written the same way in every     *)
(* file.  A float is an exact fraction <<num, den>> (rounding is not       *)
(* modelled), NaN and Inf apart.                                           *)
(***************************************************************************)
EXTENDS Integers, Sequences, FiniteSets, Bags, TLC

(* ------------------------------ bounds --------------------------------- *)

\* The most files the data directory holds.
MaxFiles == 3
\* The most script runs of one session (the first run and the reruns that
\* the user's interactions trigger).
MaxRuns == 3
\* The most columns of a file in the canonicalization specification.
MaxCols == 3

(* ------------------------------ strings -------------------------------- *)

LowerChars == <<"a","b","c","d","e","f","g","h","i","j","k","l","m",
                "n","o","p","q","r","s","t","u","v","w","x","y","z">>
UpperChars == <<"A","B","C","D","E","F","G","H","I","J","K","L","M",
                "N","O","P","Q","R","S","T","U","V","W","X","Y","Z">>

\* str.upper(), one character.
UpperChar(c) ==
    IF \E k \in DOMAIN LowerChars : LowerChars[k] = c
    THEN UpperChars[CHOOSE k \in DOMAIN LowerChars : LowerChars[k] = c]
    ELSE c

\* str.upper()
Upper(s) == [k \in DOMAIN s |-> UpperChar(s[k])]

\* str.endswith(suffix)
EndsWith(s, suffix) ==
    /\ Len(s) >= Len(suffix)
    /\ SubSeq(s, Len(s) - Len(suffix) + 1, Len(s)) = suffix

\* str.split(sep)[0] for a one-character sep: the text before the first sep,
\* the whole string when it holds none.
SplitFirst(s, sep) ==
    IF \E k \in DOMAIN s : s[k] = sep
    THEN SubSeq(s, 1, (CHOOSE k \in DOMAIN s :
                          /\ s[k] = sep
                          /\ \A j \in 1..(k - 1) : s[j] # sep) - 1)
    ELSE s

\* str.replace(old, ''): every occurrence of old removed, left to right.
RECURSIVE RemoveAll(_, _)
RemoveAll(s, old) ==
    IF Len(s) < Len(old) THEN s
    ELSE IF SubSeq(s, 1, Len(old)) = old
         THEN RemoveAll(SubSeq(s, Len(old) + 1, Len(s)), old)
         ELSE <<Head(s)>> \o RemoveAll(Tail(s), old)

\* The names the script spells out.
MW_SUFFIX == <<"_","M","W">>
MW == <<"M","W">>
DATETIME == <<"D","a","t","e","t","i","m","e">>
HOUR == <<"H","o","u","r">>
DATE == <<"D","a","t","e">>
MONTH == <<"M","o","n","t","h">>
YEAR == <<"Y","e","a","r">>
DAY_OF_WEEK == <<"D","a","y","_","o","f","_","w","e","e","k">>
DAY == <<"D","a","y">>
NONE == <<"N","o","n","e">>
\* The tail of every file name glob.glob('data/*_hourly.csv') returns.
HOURLY_CSV == <<"_","h","o","u","r","l","y",".","c","s","v">>
\* pandas.merge's default suffixes for a column name both frames hold.
SUFFIX_X == <<"_","x">>
SUFFIX_Y == <<"_","y">>

\* A missing value (NaN) of the outer join, or an empty cell of a file.
NULL == -1

\* os.path.basename(file).split('_')[0].upper()
RegionOf(basename) == Upper(SplitFirst(basename, "_"))

\* f'{region}_MW'
RegionColumn(region) == region \o MW_SUFFIX

(* ------------------------------ floats --------------------------------- *)

NaN == <<0, 0>>
Inf == <<1, 0>>

RECURSIVE Gcd(_, _)
Gcd(a, b) == IF b = 0 THEN a ELSE Gcd(b, a % b)

\* The fraction n/d of two naturals, d > 0, in lowest terms.
Frac(n, d) == LET g == Gcd(n, d) IN <<n \div g, d \div g>>

IsNumber(x) == x[2] # 0

\* Float division: x/0 is NaN for x = 0 and Inf for x > 0 (numpy scalars
\* warn and do not raise); NaN and Inf propagate.
FloatDiv(a, b) ==
    IF a = NaN \/ b = NaN THEN NaN
    ELSE IF a = Inf THEN (IF b = Inf THEN NaN ELSE Inf)
    ELSE IF b = Inf THEN <<0, 1>>
    ELSE IF b[1] = 0 THEN (IF a[1] = 0 THEN NaN ELSE Inf)
    ELSE Frac(a[1] * b[2], a[2] * b[1])

\* x * k for a natural k > 0.
FloatTimes(a, k) ==
    IF ~IsNumber(a) THEN a ELSE Frac(a[1] * k, a[2])

(* ----------------------------- calendar -------------------------------- *)

\* Timestamps are hours since 1970-01-01 00:00 (the parsed Datetime).
\* .dt.hour
HourOf(ts) == ts % 24
\* .dt.date, as days since 1970-01-01
DateOf(ts) == ts \div 24

\* The civil (year, month) of a day number, by the proleptic Gregorian
\* calendar (days-from-civil arithmetic, eras of 400 years from 0000-03-01).
CivilOf(days) ==
    LET z   == days + 719468
        era == z \div 146097
        doe == z - era * 146097
        yoe == (doe - doe \div 1460 + doe \div 36524 - doe \div 146096) \div 365
        doy == doe - (365 * yoe + yoe \div 4 - yoe \div 100)
        mp  == (5 * doy + 2) \div 153
        m   == IF mp < 10 THEN mp + 3 ELSE mp - 9
        y   == yoe + era * 400 + (IF m <= 2 THEN 1 ELSE 0)
    IN  [year |-> y, month |-> m]

\* .dt.month
MonthOf(ts) == CivilOf(DateOf(ts)).month
\* .dt.year
YearOf(ts) == CivilOf(DateOf(ts)).year
\* .dt.dayofweek, Monday = 0 (1970-01-01 was a Thursday)
DayOfWeekOf(ts) == (DateOf(ts) + 3) % 7

(* ------------------------------ tables --------------------------------- *)

Range(s) == {s[k] : k \in DOMAIN s}

\* The positions of the columns named name, ascending.
Positions(cols, name) ==
    SelectSeq([k \in DOMAIN cols |-> k], LAMBDA k : cols[k] = name)

\* df[name]: the position of the column (the first one so named).
ColumnOf(t, name) == Head(Positions(t.cols, name))

HasColumn(t, name) == name \in Range(t.cols)

\* The rows of a sequence as a bag.
BagOfSeq(s) == [x \in Range(s) |-> Cardinality({k \in DOMAIN s : s[k] = x})]

\* The number of rows of the bag B that lie in the set S.
RECURSIVE CountRows(_, _)
CountRows(B, S) ==
    IF S = {} THEN 0
    ELSE LET r == CHOOSE x \in S : TRUE
         IN  B[r] + CountRows(B, S \ {r})

\* The sum of cell c over the rows of the bag B that lie in S.
RECURSIVE SumCells(_, _, _)
SumCells(B, S, c) ==
    IF S = {} THEN 0
    ELSE LET r == CHOOSE x \in S : TRUE
         IN  B[r] * r[c] + SumCells(B, S \ {r}, c)

\* len(df)
RowCount(t) == CountRows(t.rows, DOMAIN t.rows)

\* The elements of a finite set of integers, ascending.
RECURSIVE Sorted(_)
Sorted(S) ==
    IF S = {} THEN <<>>
    ELSE LET m == CHOOSE x \in S : \A y \in S : x <= y
         IN  <<m>> \o Sorted(S \ {m})

NullCells(n) == [k \in 1..n |-> NULL]

(* -------------------- load_data: one file (lines 44-64) ---------------- *)

\* Lines 50-54: the column names after the renaming step.
RenamedColumns(cols) ==
    IF Len(cols) = 2 THEN <<DATETIME, MW>>
    ELSE IF \E k \in DOMAIN cols : EndsWith(cols[k], MW_SUFFIX)
    THEN LET first == CHOOSE k \in DOMAIN cols :
                         /\ EndsWith(cols[k], MW_SUFFIX)
                         /\ \A j \in 1..(k - 1) : ~EndsWith(cols[j], MW_SUFFIX)
         IN  [k \in DOMAIN cols |-> IF cols[k] = cols[first] THEN MW ELSE cols[k]]
    ELSE cols

\* A faulty variant of line 60: always temp_df.columns[1].
ValueColumnName_Second(cols) == cols[2]

\* Line 60: 'MW' if 'MW' in temp_df.columns else temp_df.columns[1]
ValueColumnName(cols) == IF MW \in Range(cols) THEN MW ELSE cols[2]

\* Lines 50-62 on the column names of one file: the positions of the two
\* columns kept (timestamp, value), or the exception raised.
Canonicalize(cols) ==
    LET c1 == RenamedColumns(cols)
    IN  IF MW \notin Range(c1) /\ Len(c1) < 2
        THEN [ok |-> FALSE, sel |-> <<>>, err |-> "IndexError"]
        ELSE IF DATETIME \notin Range(c1)
        THEN [ok |-> FALSE, sel |-> <<>>, err |-> "KeyError"]
        ELSE LET sel == Positions(c1, DATETIME) \o Positions(c1, ValueColumnName(c1))
             IN  IF Len(sel) # 2
                 THEN [ok |-> FALSE, sel |-> <<>>, err |-> "ValueError"]
                 ELSE [ok |-> TRUE, sel |-> sel, err |-> ""]

\* Lines 44-62: the two-column frame of one file that canonicalizes.
LoadOne(file) ==
    LET sel == Canonicalize(file.cols).sel
    IN  [cols |-> <<DATETIME, RegionColumn(RegionOf(file.name))>>,
         rows |-> BagOfSeq([k \in DOMAIN file.rows |->
                              <<file.rows[k][sel[1]], file.rows[k][sel[2]]>>])]

(* ----------------------- load_data: merge (72-89) ---------------------- *)

\* pd.merge(L, R, on='Datetime', how='outer'): the key is column 1 of both
\* frames.  A column name both hold gets the suffix _x (left) or _y (right).
\* Every pair of rows with equal keys gives one row; a row without a partner
\* is kept, the other frame's cells NULL.
Merge(L, R) ==
    LET lv   == Tail(L.cols)
        rv   == Tail(R.cols)
        both == Range(lv) \cap Range(rv)
        cols == <<DATETIME>>
                  \o [k \in DOMAIN lv |-> IF lv[k] \in both THEN lv[k] \o SUFFIX_X ELSE lv[k]]
                  \o [k \in DOMAIN rv |-> IF rv[k] \in both THEN rv[k] \o SUFFIX_Y ELSE rv[k]]
        lrows == DOMAIN L.rows
        rrows == DOMAIN R.rows
        pairs == {p \in lrows \X rrows : p[1][1] = p[2][1]}
        lonly == {l \in lrows : \A r \in rrows : r[1] # l[1]}
        ronly == {r \in rrows : \A l \in lrows : l[1] # r[1]}
        joined(p) == p[1] \o Tail(p[2])
        left(l)   == l \o NullCells(Len(rv))
        right(r)  == <<r[1]>> \o NullCells(Len(lv)) \o Tail(r)
        all == {joined(p) : p \in pairs} \cup {left(l) : l \in lonly}
                                         \cup {right(r) : r \in ronly}
        count(row) ==
            IF \E p \in pairs : joined(p) = row
            THEN LET p == CHOOSE q \in pairs : joined(q) = row
                 IN  L.rows[p[1]] * R.rows[p[2]]
            ELSE IF \E l \in lonly : left(l) = row
            THEN L.rows[CHOOSE l \in lonly : left(l) = row]
            ELSE R.rows[CHOOSE r \in ronly : right(r) = row]
    IN  [cols |-> cols, rows |-> [row \in all |-> count(row)]]

\* Lines 74-76: df = dfs[0]; for other_df in dfs[1:]: df = merge(df, other_df)
RECURSIVE MergeFrom(_, _, _)
MergeFrom(df, frames, k) ==
    IF k > Len(frames) THEN df
    ELSE MergeFrom(Merge(df, frames[k]), frames, k + 1)

MergeAll(frames) == MergeFrom(frames[1], frames, 2)

\* Lines 82-87: the calendar columns, from the parsed Datetime.
DeriveCalendar(t) ==
    LET ext(r) == r \o <<HourOf(r[1]), DateOf(r[1]), MonthOf(r[1]),
                         YearOf(r[1]), DayOfWeekOf(r[1])>>
    IN  [cols |-> t.cols \o <<HOUR, DATE, MONTH, YEAR, DAY_OF_WEEK>>,
         rows |-> [row \in {ext(r) : r \in DOMAIN t.rows} |->
                     t.rows[CHOOSE r \in DOMAIN t.rows : ext(r) = row]]]

(* ------------------- the script after load_data (92-237) --------------- *)

\* Lines 94-96: the regions the selectbox offers, in column order.
RegionsOf(t) ==
    LET region_columns == SelectSeq(t.cols, LAMBDA col : EndsWith(col, MW_SUFFIX))
    IN  [k \in DOMAIN region_columns |-> RemoveAll(region_columns[k], MW_SUFFIX)]

\* Lines 98-104: st.selectbox returns the option at the widget's index (the
\* default index is 0), and None when it has no options.
SelectedColumn(options, index) ==
    IF options = <<>> THEN NONE \o MW_SUFFIX ELSE options[index] \o MW_SUFFIX

\* Lines 116-117: df['Date'].min(), df['Date'].max()
DatesOf(t) == {r[ColumnOf(t, DATE)] : r \in DOMAIN t.rows}
MinDate(t) == CHOOSE d \in DatesOf(t) : \A e \in DatesOf(t) : d <= e
MaxDate(t) == CHOOSE d \in DatesOf(t) : \A e \in DatesOf(t) : d >= e

\* A faulty variant of line 123: the end date excluded.
InWindow_ExclusiveEnd(d, start, end) == d >= start /\ d < end

\* Line 123: (df['Date'] >= start_date) & (df['Date'] <= end_date)
InWindow(d, start, end) == d >= start /\ d <= end

\* Line 124: df.loc[mask]
FilterRows(t, start, end) ==
    LET keep == {r \in DOMAIN t.rows : InWindow(r[ColumnOf(t, DATE)], start, end)}
    IN  [cols |-> t.cols, rows |-> [r \in keep |-> t.rows[r]]]

\* Series.mean() over the rows S of t: NaN skipped, NaN when none is left.
MeanOver(t, S, c) ==
    LET nn == {r \in S : r[c] # NULL}
    IN  IF nn = {} THEN NaN ELSE Frac(SumCells(t.rows, nn, c), CountRows(t.rows, nn))

\* Series.max() over the rows S of t: NaN skipped, NaN when none is left.
MaxOver(t, S, c) ==
    LET nn == {r \in S : r[c] # NULL}
    IN  IF nn = {} THEN NaN
        ELSE <<(CHOOSE r \in nn : \A q \in nn : r[c] >= q[c])[c], 1>>

\* Line 131
Average(t, column) == MeanOver(t, DOMAIN t.rows, ColumnOf(t, column))
\* Line 139
Peak(t, column) == MaxOver(t, DOMAIN t.rows, ColumnOf(t, column))
\* Line 147
LoadFactor(avg, peak) == FloatTimes(FloatDiv(avg, peak), 100)

\* df.groupby(key)[column].mean().reset_index(): one row <<key, mean>> per
\* key value of the frame, ascending by key.
GroupMean(t, key, column) ==
    LET k    == ColumnOf(t, key)
        c    == ColumnOf(t, column)
        keys == Sorted({r[k] : r \in DOMAIN t.rows})
    IN  [n \in DOMAIN keys |->
            <<keys[n], MeanOver(t, {r \in DOMAIN t.rows : r[k] = keys[n]}, c)>>]

\* Line 199-204, px.box(filtered_df, x='Month', y=column): per month, the
\* bag of the column's values the box is drawn from.
GroupValues(t, key, column) ==
    LET k    == ColumnOf(t, key)
        c    == ColumnOf(t, column)
        keys == Sorted({r[k] : r \in DOMAIN t.rows})
        vals(m) == {r[c] : r \in {q \in DOMAIN t.rows : q[k] = m /\ q[c] # NULL}}
    IN  [n \in DOMAIN keys |->
            <<keys[n], [v \in vals(keys[n]) |->
                          CountRows(t.rows, {r \in DOMAIN t.rows :
                                               r[k] = keys[n] /\ r[c] = v})]>>]

\* Line 212
dow_names == <<"Monday", "Tuesday", "Wednesday", "Thursday", "Friday",
               "Saturday", "Sunday">>

\* Line 214: dow_avg['Day'] = dow_avg['Day_of_week'].apply(lambda x: dow_names[x])
WithDayNames(groups) == [n \in DOMAIN groups |-> groups[n] \o <<dow_names[groups[n][1] + 1]>>]

\* Line 226: filtered_df['Year'].unique()
YearsOf(t) == {r[ColumnOf(t, YEAR)] : r \in DOMAIN t.rows}

\* A faulty variant of line 227: if len(years) >= 1
SpansYears_AtLeastOne(years) == Cardinality(years) >= 1

\* Line 227: if len(years) > 1
SpansYears(years) == Cardinality(years) > 1

(* ------------------------------ the files ------------------------------ *)

T0 == 18627 * 24 + 23      \* 2020-12-31 23:00, a Thursday
T1 == 18628 * 24           \* 2021-01-01 00:00
T2 == 18628 * 24 + 1       \* 2021-01-01 01:00
T3 == 18629 * 24 + 5       \* 2021-01-02 05:00

\* The files a data directory may hold.  Every file holds at least one row.
\* At most two of them share a region: a third frame with a column name
\* that the suffixes _x, _y already produced is not modelled.
FilePool ==
    { [name |-> <<"P","J","M">> \o HOURLY_CSV,
       cols |-> << <<"t","s">>, <<"v","a","l","u","e">> >>,
       rows |-> << <<T1, 100>>, <<T2, 120>> >>],
      [name |-> <<"A","E","P">> \o HOURLY_CSV,
       cols |-> << DATETIME, <<"A","E","P","_","M","W">> >>,
       rows |-> << <<T1, 50>>, <<T3, 70>> >>],
      [name |-> <<"p","j","m","_","L","o","a","d">> \o HOURLY_CSV,
       cols |-> << DATETIME, <<"t","e","m","p">>,
                   <<"P","J","M","_","L","o","a","d","_","M","W">> >>,
       rows |-> << <<T0, 7, 80>>, <<T1, 7, 90>>, <<T1, 8, 95>> >>],
      [name |-> <<"d","o","m">> \o HOURLY_CSV,
       cols |-> << DATETIME, <<"t","e","m","p">>, MW >>,
       rows |-> << <<T0, 9, NULL>>, <<T2, 9, 0>> >>],
      [name |-> <<"b","a","d">> \o HOURLY_CSV,
       cols |-> << <<"t","s">>, <<"t","e","m","p">>, <<"l","o","a","d">> >>,
       rows |-> << <<T1, 9, 30>> >>] }

\* The file lists glob.glob may return: distinct files, in any order.
RECURSIVE FileLists(_)
FileLists(n) ==
    IF n = 0 THEN {<<>>}
    ELSE LET shorter == FileLists(n - 1)
         IN  shorter \cup {Append(fs, f) : fs \in {x \in shorter : Len(x) = n - 1},
                                          f \in FilePool}

DistinctFiles(fs) == \A a, b \in DOMAIN fs : a # b => fs[a] # fs[b]

\* The column names of the canonicalization specification.
NamePool == {DATETIME, MW, <<"A","_","M","W">>, <<"B","_","M","W">>,
             <<"t","s">>, <<"l","o","a","d">>}

RECURSIVE ColumnLists(_)
ColumnLists(n) ==
    IF n = 0 THEN {<<>>}
    ELSE LET shorter == ColumnLists(n - 1)
         IN  shorter \cup {Append(cs, c) : cs \in {x \in shorter : Len(x) = n - 1},
                                          c \in NamePool}

(* ------------------------------- state --------------------------------- *)

VARIABLES
    files,              \* the files of data/ matching *_hourly.csv, in glob order
    data_files,         \* line 32: the list glob returned to load_data's last execution
    cache,              \* st.cache_data's entry for load_data
    pc,                 \* the position of the script run
    i,                  \* line 41: the position of the loop over data_files
    dfs,                \* line 38
    warned,             \* line 67: the positions of the files reported
    error_shown,        \* line 78
    df,                 \* line 108
    ui,                 \* the widgets' state: what the user last chose
    regions,            \* line 96: the options of the selectbox
    selected_column,    \* line 109
    start_date,         \* line 119
    end_date,           \* line 120
    filtered_df,        \* line 124
    avg_consumption,    \* line 131
    peak_consumption,   \* line 139
    load_factor,        \* line 147
    daily_consumption,  \* line 159
    hourly_avg,         \* line 178
    monthly_box,        \* line 199
    dow_avg,            \* lines 213-214
    yearly_avg,         \* line 229
    loads,              \* how many times load_data's body has run
    runs,               \* how many times the script has run
    aggs                \* how many times the filter and the aggregates were computed

ingest == <<files, data_files, cache, i, dfs, warned, error_shown, loads>>
results == <<regions, selected_column, start_date, end_date, filtered_df,
             avg_consumption, peak_consumption, load_factor, daily_consumption,
             hourly_avg, monthly_box, dow_avg, yearly_avg>>
vars == <<ingest, pc, df, ui, results, runs, aggs>>

EmptyTable == [cols |-> <<>>, rows |-> <<>>]
NotComputed == <<-1, -1>>
NoChart == [produced |-> FALSE, table |-> <<>>]
DefaultUi == [region |-> 1, start |-> NULL, end |-> NULL]

\* The values of a run's variables before the run assigns them.
Fresh ==
    /\ regions = <<>> /\ selected_column = <<>>
    /\ start_date = NULL /\ end_date = NULL
    /\ filtered_df = EmptyTable
    /\ avg_consumption = NotComputed /\ peak_consumption = NotComputed
    /\ load_factor = NotComputed
    /\ daily_consumption = <<>> /\ hourly_avg = <<>> /\ monthly_box = <<>>
    /\ dow_avg = <<>> /\ yearly_avg = NoChart

Init ==
    /\ files \in {fs \in FileLists(MaxFiles) : DistinctFiles(fs)}
    /\ data_files = <<>> /\ cache = [valid |-> FALSE, value |-> EmptyTable]
    /\ pc = "start" /\ i = 0 /\ dfs = <<>> /\ warned = {} /\ error_shown = FALSE
    /\ df = EmptyTable /\ ui = DefaultUi
    /\ Fresh
    /\ loads = 0 /\ runs = 1 /\ aggs = 0

(* --------------------------- load_data (26-89) ------------------------- *)

\* A faulty variant: load_data without @st.cache_data.
CacheMiss_Always == TRUE

\* @st.cache_data: whether a call of load_data runs its body.
CacheMiss == ~cache.valid

\* Line 108, the cache holding no entry: the body starts (lines 32-38).
LoadDataBegin ==
    /\ pc = "start" /\ CacheMiss
    /\ data_files' = files
    /\ i' = 1 /\ dfs' = <<>> /\ warned' = {}
    /\ loads' = loads + 1
    /\ pc' = "load"
    /\ UNCHANGED <<files, cache, error_shown, df, ui, results, runs, aggs>>

\* Line 108, the cache holding the table: the body does not run and the
\* call returns (a copy of) the cached table.
LoadDataCached ==
    /\ pc = "start" /\ ~CacheMiss
    /\ df' = cache.value
    /\ pc' = "select"
    /\ UNCHANGED <<ingest, ui, results, runs, aggs>>

\* A faulty variant of lines 41-67: the try around the loop, so that the
\* first failing file ends it.
LoadFile_AbortOnError ==
    /\ pc = "load" /\ i <= Len(data_files)
    /\ IF Canonicalize(data_files[i].cols).ok
       THEN /\ dfs' = Append(dfs, LoadOne(data_files[i]))
            /\ warned' = warned
            /\ i' = i + 1
       ELSE /\ dfs' = dfs
            /\ warned' = warned \cup {i}
            /\ i' = Len(data_files) + 1
    /\ UNCHANGED <<files, data_files, cache, error_shown, loads,
                   pc, df, ui, results, runs, aggs>>

\* Lines 41-67, one iteration: the file is canonicalized and appended, or
\* the exception is caught, the file reported and the loop goes on.
LoadFile ==
    /\ pc = "load" /\ i <= Len(data_files)
    /\ IF Canonicalize(data_files[i].cols).ok
       THEN /\ dfs' = Append(dfs, LoadOne(data_files[i]))
            /\ warned' = warned
       ELSE /\ dfs' = dfs
            /\ warned' = warned \cup {i}
    /\ i' = i + 1
    /\ UNCHANGED <<files, data_files, cache, error_shown, loads,
                   pc, df, ui, results, runs, aggs>>

\* Lines 73-89, some file loaded: the frames are merged, the calendar
\* columns added, and the table is returned and cached.
MergeAndReturn ==
    /\ pc = "load" /\ i > Len(data_files) /\ dfs # <<>>
    /\ df' = DeriveCalendar(MergeAll(dfs))
    /\ cache' = [valid |-> TRUE, value |-> df']
    /\ pc' = "select"
    /\ UNCHANGED <<files, data_files, i, dfs, warned, error_shown, loads,
                   ui, results, runs, aggs>>

\* A faulty variant of lines 77-79: st.stop() without st.error.
NoData_Silent ==
    /\ pc = "load" /\ i > Len(data_files) /\ dfs = <<>>
    /\ pc' = "stopped"
    /\ UNCHANGED <<files, data_files, cache, i, dfs, warned, error_shown, loads,
                   df, ui, results, runs, aggs>>

\* Lines 77-79, no file loaded: st.error, and st.stop() ends the run.
NoData ==
    /\ pc = "load" /\ i > Len(data_files) /\ dfs = <<>>
    /\ error_shown' = TRUE
    /\ pc' = "stopped"
    /\ UNCHANGED <<files, data_files, cache, i, dfs, warned, loads,
                   df, ui, results, runs, aggs>>

(* ------------------------- the script (109-237) ------------------------ *)

\* Line 109: get_selected_region(df)
GetSelectedRegion ==
    /\ pc = "select"
    /\ regions' = RegionsOf(df)
    /\ selected_column' = SelectedColumn(regions', ui.region)
    /\ pc' = "dates"
    /\ UNCHANGED <<ingest, df, ui, start_date, end_date, filtered_df,
                   avg_consumption, peak_consumption, load_factor,
                   daily_consumption, hourly_avg, monthly_box, dow_avg,
                   yearly_avg, runs, aggs>>

\* Lines 116-120: the date inputs return the user's dates, min_date and
\* max_date until the user has chosen.
DateRange ==
    /\ pc = "dates"
    /\ start_date' = IF ui.start = NULL THEN MinDate(df) ELSE ui.start
    /\ end_date' = IF ui.end = NULL THEN MaxDate(df) ELSE ui.end
    /\ pc' = "filter"
    /\ UNCHANGED <<ingest, df, ui, regions, selected_column, filtered_df,
                   avg_consumption, peak_consumption, load_factor,
                   daily_consumption, hourly_avg, monthly_box, dow_avg,
                   yearly_avg, runs, aggs>>

\* Lines 123-124
Filter ==
    /\ pc = "filter"
    /\ filtered_df' = FilterRows(df, start_date, end_date)
    /\ aggs' = aggs + 1
    /\ pc' = "kpi"
    /\ UNCHANGED <<ingest, df, ui, regions, selected_column, start_date, end_date,
                   avg_consumption, peak_consumption, load_factor,
                   daily_consumption, hourly_avg, monthly_box, dow_avg,
                   yearly_avg, runs>>

\* Lines 127-151
Kpis ==
    /\ pc = "kpi" /\ HasColumn(filtered_df, selected_column)
    /\ avg_consumption' = Average(filtered_df, selected_column)
    /\ peak_consumption' = Peak(filtered_df, selected_column)
    /\ load_factor' = LoadFactor(avg_consumption', peak_consumption')
    /\ pc' = "daily"
    /\ UNCHANGED <<ingest, df, ui, regions, selected_column, start_date, end_date,
                   filtered_df, daily_consumption, hourly_avg, monthly_box,
                   dow_avg, yearly_avg, runs, aggs>>

\* Line 131 with a column the table does not hold: filtered_df[selected_column]
\* raises KeyError, which nothing catches, and the run ends.
KpisKeyError ==
    /\ pc = "kpi" /\ ~HasColumn(filtered_df, selected_column)
    /\ pc' = "crashed"
    /\ UNCHANGED <<ingest, df, ui, results, runs, aggs>>

\* Lines 157-173
DailyChart ==
    /\ pc = "daily"
    /\ daily_consumption' = GroupMean(filtered_df, DATE, selected_column)
    /\ pc' = "hourly"
    /\ UNCHANGED <<ingest, df, ui, regions, selected_column, start_date, end_date,
                   filtered_df, avg_consumption, peak_consumption, load_factor,
                   hourly_avg, monthly_box, dow_avg, yearly_avg, runs, aggs>>

\* Lines 176-193
HourlyChart ==
    /\ pc = "hourly"
    /\ hourly_avg' = GroupMean(filtered_df, HOUR, selected_column)
    /\ pc' = "monthly"
    /\ UNCHANGED <<ingest, df, ui, regions, selected_column, start_date, end_date,
                   filtered_df, avg_consumption, peak_consumption, load_factor,
                   daily_consumption, monthly_box, dow_avg, yearly_avg, runs, aggs>>

\* Lines 199-209
MonthlyBox ==
    /\ pc = "monthly"
    /\ monthly_box' = GroupValues(filtered_df, MONTH, selected_column)
    /\ pc' = "dow"
    /\ UNCHANGED <<ingest, df, ui, regions, selected_column, start_date, end_date,
                   filtered_df, avg_consumption, peak_consumption, load_factor,
                   daily_consumption, hourly_avg, dow_avg, yearly_avg, runs, aggs>>

\* A faulty variant of line 214: the 'Day' column added to df in place.
DayLabelled_InPlace(table, groups) ==
    LET ext(r) == r \o <<r[ColumnOf(table, DAY_OF_WEEK)]>>
    IN  [df |-> [cols |-> table.cols \o <<DAY>>,
                 rows |-> [row \in {ext(r) : r \in DOMAIN table.rows} |->
                             table.rows[CHOOSE r \in DOMAIN table.rows : ext(r) = row]]],
         dow_avg |-> groups]

\* The frame line 214 adds the 'Day' column to, and the table it leaves.
DayLabelled(table, groups) == [df |-> table, dow_avg |-> WithDayNames(groups)]

\* Lines 212-223
DayOfWeekChart ==
    /\ pc = "dow"
    /\ LET out == DayLabelled(df, GroupMean(filtered_df, DAY_OF_WEEK, selected_column))
       IN  /\ dow_avg' = out.dow_avg
           /\ df' = out.df
    /\ pc' = "yoy"
    /\ UNCHANGED <<ingest, ui, regions, selected_column, start_date, end_date,
                   filtered_df, avg_consumption, peak_consumption, load_factor,
                   daily_consumption, hourly_avg, monthly_box, yearly_avg, runs, aggs>>

\* Lines 226-237, and the script's end
YearOverYear ==
    /\ pc = "yoy"
    /\ yearly_avg' = IF SpansYears(YearsOf(filtered_df))
                     THEN [produced |-> TRUE,
                           table |-> GroupMean(filtered_df, YEAR, selected_column)]
                     ELSE NoChart
    /\ pc' = "done"
    /\ UNCHANGED <<ingest, df, ui, regions, selected_column, start_date, end_date,
                   filtered_df, avg_consumption, peak_consumption, load_factor,
                   daily_consumption, hourly_avg, monthly_box, dow_avg, runs, aggs>>

(* ------------------------- the user, the files ------------------------- *)

\* A widget's new value reruns the script from its first line, its
\* variables fresh.
Rerun(choice) ==
    /\ pc \in {"done", "crashed"} /\ runs < MaxRuns
    /\ ui' = choice
    /\ runs' = runs + 1
    /\ pc' = "start"
    /\ df' = EmptyTable
    /\ regions' = <<>> /\ selected_column' = <<>>
    /\ start_date' = NULL /\ end_date' = NULL
    /\ filtered_df' = EmptyTable
    /\ avg_consumption' = NotComputed /\ peak_consumption' = NotComputed
    /\ load_factor' = NotComputed
    /\ daily_consumption' = <<>> /\ hourly_avg' = <<>> /\ monthly_box' = <<>>
    /\ dow_avg' = <<>> /\ yearly_avg' = NoChart
    /\ UNCHANGED <<ingest, aggs>>

\* The user picks another of the regions offered (line 98).
ChangeRegion ==
    /\ pc \in {"done", "crashed"}
    /\ \E k \in DOMAIN regions :
          /\ k # ui.region
          /\ Rerun([ui EXCEPT !.region = k])

\* The user picks another start date, within min_date..max_date (line 119).
ChangeStartDate ==
    /\ pc \in {"done", "crashed"}
    /\ \E d \in MinDate(df)..MaxDate(df) :
          /\ d # start_date
          /\ Rerun([ui EXCEPT !.start = d])

\* The user picks another end date, within min_date..max_date (line 120).
ChangeEndDate ==
    /\ pc \in {"done", "crashed"}
    /\ \E d \in MinDate(df)..MaxDate(df) :
          /\ d # end_date
          /\ Rerun([ui EXCEPT !.end = d])

\* A file of data/ is removed while the session lasts.
SourceChange ==
    /\ pc = "done" /\ files = data_files /\ files # <<>>
    /\ files' = SubSeq(files, 1, Len(files) - 1)
    /\ UNCHANGED <<data_files, cache, i, dfs, warned, error_shown, loads,
                   pc, df, ui, results, runs, aggs>>

Next ==
    \/ LoadDataBegin \/ LoadDataCached \/ LoadFile \/ MergeAndReturn \/ NoData
    \/ GetSelectedRegion \/ DateRange \/ Filter \/ Kpis \/ KpisKeyError
    \/ DailyChart \/ HourlyChart \/ MonthlyBox \/ DayOfWeekChart \/ YearOverYear
    \/ ChangeRegion \/ ChangeStartDate \/ ChangeEndDate \/ SourceChange

Spec == Init /\ [][Next]_vars

(* ------------------ the canonicalization specification ----------------- *)

\* One file AEP_hourly.csv, of any column names (pd.read_csv makes the
\* names of a file distinct) and one row, whose cell in column k is 10 * k.
CanonFiles ==
    { << [name |-> <<"A","E","P">> \o HOURLY_CSV,
          cols |-> cs,
          rows |-> << [k \in DOMAIN cs |-> 10 * k] >>] >> :
      cs \in {x \in ColumnLists(MaxCols) : \A a, b \in DOMAIN x : a # b => x[a] # x[b]} }

InitCanon ==
    /\ files \in CanonFiles
    /\ data_files = <<>> /\ cache = [valid |-> FALSE, value |-> EmptyTable]
    /\ pc = "start" /\ i = 0 /\ dfs = <<>> /\ warned = {} /\ error_shown = FALSE
    /\ df = EmptyTable /\ ui = DefaultUi
    /\ Fresh
    /\ loads = 0 /\ runs = 1 /\ aggs = 0

NextCanon == LoadDataBegin \/ LoadFile

SpecCanon == InitCanon /\ [][NextCanon]_vars

(* ------------------------------- claims -------------------------------- *)

\* The position of the column named name.
At(cols, name) == CHOOSE k \in DOMAIN cols : cols[k] = name

\* load_data has ended (it returned the table, or it stopped the run).
Ingested == pc \notin {"start", "load"} \/ cache.valid

\* The timestamps of the k-th frame of dfs.
StampsOf(k) == {r[1] : r \in DOMAIN dfs[k].rows}

\* C1: the table load_data returns has exactly one row per distinct
\* timestamp of the union of the loaded sources, none of them dropped, and
\* the value of a region is null in the rows whose timestamp its source
\* does not hold.
C1_OneRowPerTimestamp ==
    cache.valid =>
        LET t == cache.value
            stamps == UNION {StampsOf(k) : k \in DOMAIN dfs}
        IN  /\ RowCount(t) = Cardinality(stamps)
            /\ {r[1] : r \in DOMAIN t.rows} = stamps
            /\ \A k \in DOMAIN dfs : \A r \in DOMAIN t.rows :
                   r[1] \notin StampsOf(k) => r[k + 1] = NULL

\* The files of data_files that canonicalize.
Loadable == {k \in DOMAIN data_files : Canonicalize(data_files[k].cols).ok}

C3_NoDataStops ==
    /\ (Ingested /\ dfs = <<>>) =>
          /\ pc = "stopped" /\ error_shown /\ ~cache.valid
          /\ df = EmptyTable /\ Fresh /\ aggs = 0
          /\ ~ENABLED Next
    /\ error_shown => (dfs = <<>> /\ pc = "stopped")

C3_Witness ==
    /\ pc = "stopped" /\ warned # {} /\ warned = DOMAIN data_files

\* The value column of the canonicalization rules as stated: column 2 of
\* a two-column table, else the first column named *_MW, else column 2.
StatedValueColumn(cols) ==
    IF Len(cols) = 2 THEN 2
    ELSE IF \E k \in DOMAIN cols : EndsWith(cols[k], MW_SUFFIX)
    THEN CHOOSE k \in DOMAIN cols :
             /\ EndsWith(cols[k], MW_SUFFIX)
             /\ \A j \in 1..(k - 1) : ~EndsWith(cols[j], MW_SUFFIX)
    ELSE 2

\* The same with the third rule amended: else the column named MW when
\* the table has one, else column 2.
AmendedValueColumn(cols) ==
    IF Len(cols) = 2 THEN 2
    ELSE IF \E k \in DOMAIN cols : EndsWith(cols[k], MW_SUFFIX)
    THEN CHOOSE k \in DOMAIN cols :
             /\ EndsWith(cols[k], MW_SUFFIX)
             /\ \A j \in 1..(k - 1) : ~EndsWith(cols[j], MW_SUFFIX)
    ELSE IF \E k \in DOMAIN cols : cols[k] = MW
    THEN At(cols, MW)
    ELSE 2

\* The one file of the canonicalization specification has been loaded.
CanonLoaded == pc = "load" /\ i = 2 /\ Len(dfs) = 1

\* The frame of the loaded file has the columns (Datetime, AEP_MW), the
\* timestamp column of the file first (column 1 of a two-column file, the
\* column named Datetime otherwise), and value column v of the file second.
CanonFrameIs(v) ==
    LET cols == data_files[1].cols
        ts   == IF Len(cols) = 2 THEN 1 ELSE At(cols, DATETIME)
    IN  /\ dfs[1].cols = <<DATETIME, <<"A","E","P","_","M","W">> >>
        /\ DOMAIN dfs[1].rows = {<<10 * ts, 10 * v>>}

\* C4, as stated: the value column of a loaded source is picked by (a)
\* position in a two-column table, (b) else the name ending in _MW, (c)
\* else the second column; the output has the columns (Datetime, REGION_MW).
C4_AsStated ==
    CanonLoaded => CanonFrameIs(StatedValueColumn(data_files[1].cols))

\* C4, amended: as stated, but rule (c) picks a column named exactly MW
\* when the table has one, and the second column otherwise.
C4_Amended ==
    CanonLoaded => CanonFrameIs(AmendedValueColumn(data_files[1].cols))

C4_Witness ==
    /\ CanonLoaded
    /\ Len(data_files[1].cols) = 3
    /\ data_files[1].cols[3] = MW
    /\ \A k \in 1..3 : ~EndsWith(data_files[1].cols[k], MW_SUFFIX)

\* The region identifiers of the loaded sources, in the order of merging.
LoadedRegions ==
    [k \in DOMAIN dfs |-> SubSeq(dfs[k].cols[2], 1, Len(dfs[k].cols[2]) - Len(MW_SUFFIX))]

\* C5: get_selected_region offers exactly the regions of the loaded
\* sources, in the order they were merged, the first one the default, and
\* the column it returns is a column of the table.
C5_OffersLoadedRegions ==
    pc \in {"dates", "filter", "kpi", "daily", "hourly", "monthly", "dow",
            "yoy", "done", "crashed"} =>
        /\ regions = LoadedRegions
        /\ selected_column \in Range(df.cols)
        /\ ui = DefaultUi => selected_column = RegionColumn(LoadedRegions[1])

\* The KPIs of the run have been computed.
KpisDone == pc \in {"daily", "hourly", "monthly", "dow", "yoy", "done"}

\* The rows of the table whose date lies in start_date..end_date.
WindowRows ==
    {r \in DOMAIN df.rows :
        start_date <= r[At(df.cols, DATE)] /\ r[At(df.cols, DATE)] <= end_date}

\* x is the mean of cell c over those of the rows S of the table that
\* hold a value there (NaN when none does).
IsMeanOf(x, S, c) ==
    LET nn == {r \in S : r[c] # NULL}
    IN  IF nn = {} THEN x = NaN
        ELSE /\ x[2] > 0
             /\ x[1] * CountRows(df.rows, nn) = SumCells(df.rows, nn, c) * x[2]

\* C6: the KPIs are computed over exactly the rows with
\* start_date <= date <= end_date: the average is the mean of the selected
\* region's values there, the peak their maximum, and
\* load_factor = average / peak * 100.
C6_KpisOverInclusiveWindow ==
    KpisDone =>
        LET c  == At(df.cols, selected_column)
            nn == {r \in WindowRows : r[c] # NULL}
        IN  /\ IsMeanOf(avg_consumption, WindowRows, c)
            /\ nn = {} => peak_consumption = NaN
            /\ nn # {} =>
                  /\ peak_consumption[2] = 1
                  /\ \E r \in nn : r[c] = peak_consumption[1]
                  /\ \A r \in nn : r[c] <= peak_consumption[1]
            /\ (nn # {} /\ peak_consumption[1] > 0) =>
                  /\ load_factor[2] > 0
                  /\ load_factor[1] * avg_consumption[2] * peak_consumption[1]
                       = 100 * avg_consumption[1] * load_factor[2]

C6_Witness ==
    /\ pc = "done" /\ start_date = end_date
    /\ load_factor = <<275, 3>>
    /\ WindowRows # DOMAIN df.rows

\* The window of the run has been filtered.
Filtered == pc \in {"kpi", "daily", "hourly", "monthly", "dow", "yoy", "done", "crashed"}

\* C7: with an empty window, or no value of the selected region in it, or
\* a peak of zero, the run does not raise and reaches its end, the KPIs
\* undefined as applicable and the aggregates of an empty window empty.
C7_UndefinedNotRaised ==
    /\ (Filtered /\ DOMAIN filtered_df.rows = {}) =>
          /\ pc # "crashed"
          /\ pc = "done" =>
                /\ avg_consumption = NaN /\ peak_consumption = NaN /\ load_factor = NaN
                /\ daily_consumption = <<>> /\ hourly_avg = <<>> /\ monthly_box = <<>>
                /\ dow_avg = <<>> /\ yearly_avg = NoChart
    /\ (pc = "done" /\ peak_consumption \in {NaN, <<0, 1>>}) => load_factor = NaN

\* C8: load_data's body runs once in a session and every later run reads
\* the cached table, also after the files changed, while each run filters
\* and aggregates anew.
C8_IngestedOnce ==
    /\ loads <= 1
    /\ (runs > 1 \/ pc \notin {"start", "load", "stopped"}) =>
          (loads = 1 /\ cache.valid)
    /\ Filtered => aggs = runs
    /\ (pc = "done" /\ DOMAIN filtered_df.rows # {}) =>
          \A r \in DOMAIN filtered_df.rows : r \in DOMAIN cache.value.rows

C8_Witness ==
    /\ pc = "done" /\ runs = 3 /\ files # data_files

\* C9: the yearly aggregate is produced exactly when the rows of the
\* window carry more than one year, and it is then the mean of the selected
\* region per year.
C9_YearlyIffSeveralYears ==
    pc = "done" =>
        LET y     == At(df.cols, YEAR)
            c     == At(df.cols, selected_column)
            years == {r[y] : r \in WindowRows}
        IN  /\ yearly_avg.produced <=> Cardinality(years) > 1
            /\ ~yearly_avg.produced => yearly_avg.table = <<>>
            /\ yearly_avg.produced =>
                  /\ {yearly_avg.table[n][1] : n \in DOMAIN yearly_avg.table} = years
                  /\ Len(yearly_avg.table) = Cardinality(years)
                  /\ \A n \in DOMAIN yearly_avg.table :
                        IsMeanOf(yearly_avg.table[n][2],
                                 {r \in WindowRows : r[y] = yearly_avg.table[n][1]}, c)

C9_Witness ==
    /\ pc = "done" /\ yearly_avg.produced
    /\ \E n \in DOMAIN yearly_avg.table : IsNumber(yearly_avg.table[n][2])

\* C10: once built, the table is never modified, and the table every
\* step of every run works on is the one ingestion returned.
C10_TableReadOnly ==
    [][cache.valid => (cache' = cache /\ (df' = cache.value \/ pc' = "start"))]_vars

C10_Witness ==
    /\ pc = "done" /\ runs = 3 /\ df = cache.value /\ dow_avg # <<>>

====
